---- MODULE Spec2Model ----
(***************************************************************************)
(* Temp-Mail (src/app.py): a Streamlit page that lists mail domains,       *)
(* allocates a temporary address and polls its mailbox.                    *)
(*                                                                         *)
(* One run of main() is a page pass.  A pass is modelled as a sequence of  *)
(* steps, one per remote call it can make, with pc holding the position:   *)
(*   idle -> (tab 1) -> allocating -> tab2 -> polling -> display -> idle.  *)
(* Session State, the domain cache and the rendered buttons persist from   *)
(* one pass to the next; a pass runs to its end (or to an st.stop()) before*)
(* the next one starts.                                                    *)
(*                                                                         *)
(* Strings the code inspects character by character (the custom name, the  *)
(* random word) are sequences of one-character strings.                    *)
(***************************************************************************)
EXTENDS Integers, Sequences, FiniteSets, TLC

\* ------------------------------------------------------------------ bounds
\* Longest text typed into the custom-name field.
MaxTypedLen == 2
\* Longest random-name length sampled from the number input's range.
MaxSampledLength == 4
\* Most messages in one Mailbox Poller response.
MaxMessages == 2

\* --------------------------------------------------------- program constants
\* st.session_state["max_attempts"] = 6
max_attempts == 6
\* number_input min_value / max_value
min_value == 4
max_value == 20

\* ------------------------------------------------------------- value spaces
\* st.session_state["generated_email"] = None
None == "None"

\* Characters: samples of each class the code distinguishes.
ascii_lowercase == {"a", "b"}
NameChars == ascii_lowercase \cup {"Z", "7", "_", "-"}
Whitespace == {" ", "\n"}
\* What the single-line text input can hold.
TypedChars == {"a", " "}

RECURSIVE SeqsUpTo(_, _)
SeqsUpTo(S, n) ==
    IF n = 0 THEN {<<>>}
    ELSE LET shorter == SeqsUpTo(S, n - 1)
         IN  shorter \cup {Append(s, x) : s \in {t \in shorter : Len(t) = n - 1}, x \in S}

TypedNames == SeqsUpTo(TypedChars, MaxTypedLen)

\* Addresses the remote API can mint, and the subjects of the mail it holds.
Emails == {"a@d1", "b@d2"}
Subjects == {"s1"}
Message(email, subject) == [to |-> email, subject |-> subject]
\* JSON bodies the messages endpoint can return for one address.
Mailbox(email) == SeqsUpTo({Message(email, s) : s \in Subjects}, MaxMessages)

\* JSON bodies the domains endpoint can return.
DomainLists == {<<"d1">>, <<"d1", "d2">>}

\* A remote response: a 2xx body, or a requests.RequestException (network
\* error or non-2xx status), which carries no body.
Ok(body) == [ok |-> TRUE, body |-> body]
RequestException == [ok |-> FALSE, body |-> <<>>]
AllocException == [ok |-> FALSE, body |-> None]

DomainResponses == {RequestException} \cup {Ok(d) : d \in DomainLists}
AllocResponses == {AllocException} \cup {Ok(e) : e \in Emails}
MessageResponses(email) == {RequestException} \cup {Ok(m) : m \in Mailbox(email)}

\* ------------------------------------------------------------ pure functions
\* str.strip(): leading and trailing whitespace removed.
RECURSIVE lstrip(_)
lstrip(s) == IF s # <<>> /\ Head(s) \in Whitespace THEN lstrip(Tail(s)) ELSE s
RECURSIVE rstrip(_)
rstrip(s) ==
    IF s # <<>> /\ s[Len(s)] \in Whitespace THEN rstrip(SubSeq(s, 1, Len(s) - 1)) ELSE s
strip(s) == rstrip(lstrip(s))

\* re.compile(r"^[a-zA-Z0-9_-]+$").match(name): one or more class characters
\* from the start, then "$", which matches at the end of the string and also
\* just before a line break that ends the string.
validate_email_name(name) ==
    LET n == Len(name)
        body == IF n >= 1 /\ name[n] = "\n" THEN SubSeq(name, 1, n - 1) ELSE name
    IN  /\ Len(body) >= 1
        /\ \A i \in 1..Len(body) : body[i] \in NameChars

\* "".join(random.choice(letters) for _ in range(length)): the strings the
\* random choices can produce.
\* random_word with range(length - 1).
random_word_OneShort(length) == [1..(length - 1) -> ascii_lowercase]
random_word(length) == [1..length -> ascii_lowercase]

\* get_domains() under @st.cache_data(ttl=3600): a cached return value is
\* returned as it is; otherwise the endpoint is called and the return value,
\* [] on a RequestException, is what the decorator stores.
NoEntry == [present |-> FALSE, value |-> <<>>]
Entry(value) == [present |-> TRUE, value |-> value]
get_domains_body(resp) == IF resp.ok THEN resp.body ELSE <<>>
\* get_domains without the decorator.
get_domains_Uncached(cache, resp) == get_domains_body(resp)
get_domains(cache, resp) == IF cache.present THEN cache.value ELSE get_domains_body(resp)

\* generate_email(): the minted address, None on a RequestException.
generate_email(resp) == IF resp.ok THEN resp.body ELSE None

\* check_messages returning the error as its result.
check_messages_ErrorAsResult(resp) ==
    IF resp.ok THEN resp.body ELSE <<[to |-> "", subject |-> "error"]>>

\* check_messages(): the message list, [] on a RequestException.
check_messages(resp) == IF resp.ok THEN resp.body ELSE <<>>

\* -------------------------------------------------------------------- state
VARIABLES
    \* st.session_state
    generated_email, polling_complete, messages, polling_attempts, custom_name,
    \* st.cache_data entry of get_domains
    domains_cache,
    \* buttons the last pass left on the page
    generate_shown, manual_shown,
    \* position inside the running pass; loop variable of perform_polling;
    \* the manual-check button's trigger value for this pass
    pc, attempt, manual_pressed,
    \* allocate request in flight
    alloc_request,
    \* history (not read by the program):
    \*   halted        why the last pass stopped early ("" when it did not)
    \*   before_alloc  Session State when the allocate request was sent
    \*   alloc_outcome result of this pass's allocate request
    \*   loop_log      check_messages results of the polling loop since the
    \*                 current address was allocated
    \*   loop_done     the loop reached Found or Exhausted for this address
    \*   sleeps        time.sleep calls of the polling loop for this address
    \*   manual_calls  Mailbox Poller calls of the manual check in this pass
    \*   manual_result what the manual check's call returned
    \*   manual_stored a manual check stored its result for this address
    halted, before_alloc, alloc_outcome, loop_log, loop_done, sleeps,
    manual_calls, manual_result, manual_stored,
    \*   typed, generate_pressed  the custom-name text and the Generate
    \*                 button's trigger value this pass ran with
    \*   domain_fetches   network requests of get_domains in this pass
    \*   loop_failures    RequestExceptions of the Mailbox Poller in the polling
    \*                    loop this pass ran
    typed, generate_pressed, domain_fetches, loop_failures,
    \* a direct call of one of the helper functions and what it returned
    call, returned

session == <<generated_email, polling_complete, messages, polling_attempts, custom_name>>
history == <<halted, before_alloc, alloc_outcome, loop_log, loop_done, sleeps,
             manual_calls, manual_result, manual_stored,
             typed, generate_pressed, domain_fetches, loop_failures>>
helper == <<call, returned>>
vars == <<session, domains_cache, generate_shown, manual_shown, pc, attempt,
          manual_pressed, alloc_request, history, helper>>

NoRequest == [sent |-> FALSE, domain |-> "", name |-> <<>>]
Request(domain, name) == [sent |-> TRUE, domain |-> domain, name |-> name]
Snapshot == [generated_email |-> generated_email, messages |-> messages,
             polling_attempts |-> polling_attempts, polling_complete |-> polling_complete]
NoSnapshot == [generated_email |-> None, messages |-> <<>>,
               polling_attempts |-> 0, polling_complete |-> FALSE]

NoCall == [fn |-> "main", arg |-> <<>>]
Call(fn, arg) == [fn |-> fn, arg |-> arg]
NoResult == [done |-> FALSE, value |-> <<>>]
Returned(value) == [done |-> TRUE, value |-> value]

\* Lines 65-76 on the first pass of a session; nothing is cached or rendered.
Init ==
    /\ call = NoCall
    /\ returned = NoResult
    /\ generated_email = None
    /\ polling_complete = FALSE
    /\ messages = <<>>
    /\ polling_attempts = 0
    /\ custom_name = <<>>
    /\ domains_cache = NoEntry
    /\ generate_shown = FALSE
    /\ manual_shown = FALSE
    /\ pc = "idle"
    /\ attempt = 0
    /\ manual_pressed = FALSE
    /\ alloc_request = NoRequest
    /\ halted = ""
    /\ before_alloc = NoSnapshot
    /\ alloc_outcome = "none"
    /\ loop_log = <<>>
    /\ loop_done = FALSE
    /\ sleeps = 0
    /\ manual_calls = 0
    /\ manual_result = <<>>
    /\ manual_stored = FALSE
    /\ typed = <<>>
    /\ generate_pressed = FALSE
    /\ domain_fetches = 0
    /\ loop_failures = 0


\* ------------------------------------------------------------------ a pass
\* NameLengths with min_value=0.
NameLengths_FromZero == {n \in 0..max_value : n <= MaxSampledLength}

\* The sampled values of the sidebar's number input (min_value..max_value).
NameLengths == {n \in min_value..max_value : n <= MaxSampledLength}

\* st.stop(): the pass ends here; what it has not rendered leaves the page.
Stop(why, generate_button) ==
    /\ pc' = "idle"
    /\ manual_pressed' = FALSE
    /\ halted' = why
    /\ generate_shown' = generate_button
    /\ manual_shown' = FALSE

\* PressGenerate sending the name whatever validate_email_name said.
PressGenerate_NoStop(email_name, selected_domain, manual) ==
    \E name_length \in NameLengths :
    \E word \in (IF email_name # <<>> THEN {email_name} ELSE random_word(name_length)) :
         /\ alloc_request' = Request(selected_domain, word)
         /\ before_alloc' = Snapshot
         /\ pc' = "allocating"
         /\ halted' = ""
         /\ generate_shown' = TRUE
         /\ manual_pressed' = manual
         /\ UNCHANGED manual_shown

\* Lines 139-152: the Generate button was pressed.  A non-empty name is
\* validated and used, or the pass stops; an empty one is replaced by a
\* random word.  The allocate request is sent with the chosen name.
PressGenerate(email_name, selected_domain, manual) ==
    IF email_name # <<>>
    THEN IF validate_email_name(email_name)
         THEN /\ alloc_request' = Request(selected_domain, email_name)
              /\ before_alloc' = Snapshot
              /\ pc' = "allocating"
              /\ halted' = ""
              /\ generate_shown' = TRUE
              /\ manual_pressed' = manual
              /\ UNCHANGED manual_shown
         ELSE /\ Stop("invalid_name", TRUE)
              /\ UNCHANGED <<alloc_request, before_alloc>>
    ELSE \E name_length \in NameLengths : \E word \in random_word(name_length) :
              /\ alloc_request' = Request(selected_domain, word)
              /\ before_alloc' = Snapshot
              /\ pc' = "allocating"
              /\ halted' = ""
              /\ generate_shown' = TRUE
              /\ manual_pressed' = manual
              /\ UNCHANGED manual_shown

\* Lines 59-152 of one pass: Session State exists (lines 65-76 change
\* nothing after the first pass), the domains are fetched or read from the
\* cache, the custom name is stored, and the Generate button is handled.
\* The text and the trigger values are the user's; a widget that is not on
\* the page cannot have been used.
GenerateTab ==
    /\ pc = "idle"
    /\ \E resp \in (IF domains_cache.present THEN {RequestException} ELSE DomainResponses),
          email_name \in (IF generate_shown THEN TypedNames ELSE {custom_name}),
          pressed \in (IF generate_shown THEN BOOLEAN ELSE {FALSE}),
          manual \in (IF manual_shown THEN BOOLEAN ELSE {FALSE}) :
          LET domains == get_domains(domains_cache, resp)
          IN  /\ domains_cache' = Entry(domains)
              /\ domain_fetches' = IF domains_cache.present THEN 0 ELSE 1
              /\ typed' = email_name
              /\ generate_pressed' = pressed
              /\ alloc_outcome' = "none"
              /\ manual_calls' = 0
              /\ manual_result' = <<>>
              /\ attempt' = 0
              /\ UNCHANGED <<generated_email, polling_complete, messages, polling_attempts>>
              /\ UNCHANGED <<loop_log, loop_done, sleeps, manual_stored, loop_failures, helper>>
              /\ IF domains = <<>>
                 THEN /\ Stop("no_domains", FALSE)
                      /\ UNCHANGED <<custom_name, alloc_request, before_alloc>>
                 ELSE /\ custom_name' = strip(email_name)
                      /\ IF pressed
                         THEN \E i \in 1..Len(domains) : PressGenerate(email_name, domains[i], manual)
                         ELSE /\ pc' = "tab2"
                              /\ halted' = ""
                              /\ generate_shown' = TRUE
                              /\ manual_pressed' = manual
                              /\ UNCHANGED <<manual_shown, alloc_request, before_alloc>>

\* StoreAllocation without line 156.
StoreAllocation_KeepsMessages(generated) ==
    IF generated # None
    THEN /\ generated_email' = generated
         /\ polling_complete' = FALSE
         /\ polling_attempts' = 0
         /\ custom_name' = <<>>
         /\ UNCHANGED messages
    ELSE UNCHANGED session

\* StoreAllocation without line 157.
StoreAllocation_KeepsFlag(generated) ==
    IF generated # None
    THEN /\ generated_email' = generated
         /\ messages' = <<>>
         /\ polling_attempts' = 0
         /\ custom_name' = <<>>
         /\ UNCHANGED polling_complete
    ELSE UNCHANGED session

\* StoreAllocation with the reset of lines 156-158 outside the "if".
StoreAllocation_ResetsOnFailure(generated) ==
    /\ generated_email' = IF generated # None THEN generated ELSE generated_email
    /\ messages' = <<>>
    /\ polling_complete' = FALSE
    /\ polling_attempts' = 0
    /\ custom_name' = IF generated # None THEN <<>> ELSE custom_name

\* StoreAllocation without line 158.
StoreAllocation_KeepsAttempts(generated) ==
    IF generated # None
    THEN /\ generated_email' = generated
         /\ messages' = <<>>
         /\ polling_complete' = FALSE
         /\ custom_name' = <<>>
         /\ UNCHANGED polling_attempts
    ELSE UNCHANGED session

\* Lines 154-161: what a returned address does to Session State.
StoreAllocation(generated) ==
    IF generated # None
    THEN /\ generated_email' = generated
         /\ messages' = <<>>
         /\ polling_complete' = FALSE
         /\ polling_attempts' = 0
         /\ custom_name' = <<>>
    ELSE UNCHANGED session

\* Lines 28-33 and 154-162: the allocate request is answered.
GenerateResponse ==
    /\ pc = "allocating"
    /\ \E resp \in AllocResponses :
          LET generated == generate_email(resp)
          IN  /\ StoreAllocation(generated)
              /\ alloc_outcome' = IF generated # None THEN "ok" ELSE "failed"
              /\ IF generated # None
                 THEN /\ loop_log' = <<>>
                      /\ loop_done' = FALSE
                      /\ sleeps' = 0
                      /\ manual_stored' = FALSE
                 ELSE UNCHANGED <<loop_log, loop_done, sleeps, manual_stored>>
    /\ alloc_request' = NoRequest
    /\ pc' = "tab2"
    /\ UNCHANGED <<domains_cache, generate_shown, manual_shown, attempt, manual_pressed,
                   halted, before_alloc, manual_calls, manual_result,
                   typed, generate_pressed, domain_fetches, loop_failures, call,
                   returned>>

\* ShouldPoll without the test of polling_complete.
ShouldPoll_IgnoresFlag == polling_attempts < max_attempts

\* Lines 225-228: whether this pass runs perform_polling.
ShouldPoll ==
    /\ ~polling_complete
    /\ polling_attempts < max_attempts

\* CheckTab without lines 181-185.
CheckTab_NoStop ==
    /\ pc = "tab2"
    /\ before_alloc' = NoSnapshot
    /\ pc' = IF (~polling_complete /\ polling_attempts < max_attempts)
             THEN "polling" ELSE "display"
    /\ attempt' = 0
    /\ UNCHANGED <<session, domains_cache, generate_shown, manual_shown, manual_pressed,
                   alloc_request, halted, alloc_outcome, loop_log, loop_done, sleeps,
                   manual_calls, manual_result, manual_stored, typed, generate_pressed,
                   domain_fetches, loop_failures, helper>>

\* Lines 180-230: without an address the pass stops; otherwise the polling
\* loop is entered or skipped.
CheckTab ==
    /\ pc = "tab2"
    /\ before_alloc' = NoSnapshot
    /\ IF generated_email = None
       THEN /\ Stop("no_email", TRUE)
            /\ UNCHANGED attempt
       ELSE /\ pc' = IF ShouldPoll THEN "polling" ELSE "display"
            /\ attempt' = 0
            /\ UNCHANGED <<halted, generate_shown, manual_shown, manual_pressed>>
    /\ UNCHANGED <<session, domains_cache, alloc_request, alloc_outcome,
                   loop_log, loop_done, sleeps, manual_calls, manual_result,
                   manual_stored, typed, generate_pressed, domain_fetches, loop_failures, call,
                   returned>>

\* LoopContinues with range(max_attempts + 1).
LoopContinues_OneMore == attempt < max_attempts + 1

\* for attempt in range(max_attempts): another iteration is due.
LoopContinues == attempt < max_attempts

\* HandleAttempt without line 211.
HandleAttempt_NoFlag(result) ==
    IF result # <<>>
    THEN /\ messages' = result
         /\ pc' = "display"
         /\ attempt' = 0
         /\ UNCHANGED <<sleeps, polling_complete, loop_done>>
    ELSE /\ attempt' = attempt + 1
         /\ sleeps' = sleeps + 1
         /\ UNCHANGED <<messages, polling_complete, loop_done, pc>>

\* HandleAttempt without the return of line 212.
HandleAttempt_NoReturn(result) ==
    /\ attempt' = attempt + 1
    /\ IF result # <<>>
       THEN /\ messages' = result
            /\ polling_complete' = TRUE
            /\ loop_done' = TRUE
            /\ UNCHANGED <<sleeps, pc>>
       ELSE /\ sleeps' = sleeps + 1
            /\ UNCHANGED <<messages, polling_complete, loop_done, pc>>

\* HandleAttempt with the sleep skipped after the last attempt.
HandleAttempt_SkipsLastSleep(result) ==
    IF result # <<>>
    THEN /\ messages' = result
         /\ polling_complete' = TRUE
         /\ loop_done' = TRUE
         /\ pc' = "display"
         /\ attempt' = 0
         /\ UNCHANGED sleeps
    ELSE /\ attempt' = attempt + 1
         /\ sleeps' = IF attempt + 1 < max_attempts THEN sleeps + 1 ELSE sleeps
         /\ UNCHANGED <<messages, polling_complete, loop_done, pc>>

\* Lines 203-212 and 217-218: a non-empty result is stored, polling is marked
\* complete and perform_polling returns; an empty one is followed by the
\* sleep and the next value of the loop variable.  The loop variable is a
\* local of perform_polling and is gone when it returns.
HandleAttempt(result) ==
    IF result # <<>>
    THEN /\ messages' = result
         /\ polling_complete' = TRUE
         /\ loop_done' = TRUE
         /\ pc' = "display"
         /\ attempt' = 0
         /\ UNCHANGED sleeps
    ELSE /\ attempt' = attempt + 1
         /\ sleeps' = sleeps + 1
         /\ UNCHANGED <<messages, polling_complete, loop_done, pc>>

\* Lines 199-218: one iteration of perform_polling's loop.
PollAttempt ==
    /\ pc = "polling"
    /\ LoopContinues
    /\ polling_attempts' = polling_attempts + 1
    /\ \E resp \in MessageResponses(generated_email) :
          LET result == check_messages(resp)
          IN  /\ loop_log' = Append(loop_log, result)
              /\ loop_failures' = IF resp.ok THEN loop_failures ELSE loop_failures + 1
              /\ HandleAttempt(result)
    /\ UNCHANGED <<generated_email, custom_name, domains_cache, generate_shown,
                   manual_shown, manual_pressed, alloc_request, halted, before_alloc,
                   alloc_outcome, manual_calls, manual_result, manual_stored,
                   typed, generate_pressed, domain_fetches, call, returned>>

\* PollExhausted without line 220.
PollExhausted_NoFlag ==
    /\ pc = "polling"
    /\ attempt >= max_attempts
    /\ pc' = "display"
    /\ attempt' = 0
    /\ UNCHANGED <<session, domains_cache, generate_shown, manual_shown, manual_pressed,
                   alloc_request, history, helper>>

\* PollExhausted never returning.
PollExhausted_Hangs ==
    /\ pc = "polling"
    /\ attempt >= max_attempts
    /\ UNCHANGED vars

\* Lines 219-222: the loop ran out of iterations.
PollExhausted ==
    /\ pc = "polling"
    /\ ~LoopContinues
    /\ polling_complete' = TRUE
    /\ loop_done' = TRUE
    /\ pc' = "display"
    /\ attempt' = 0
    /\ UNCHANGED <<generated_email, messages, polling_attempts, custom_name,
                   domains_cache, generate_shown, manual_shown, manual_pressed,
                   alloc_request, halted, before_alloc, alloc_outcome, loop_log, sleeps,
                   manual_calls, manual_result, manual_stored,
                   typed, generate_pressed, domain_fetches, loop_failures, call,
                   returned>>

\* StoreManual appending to the stored list.
StoreManual_Appends(result) == messages \o result

\* Lines 252-253: what the manual check does with its result.
StoreManual(result) == IF result # <<>> THEN result ELSE messages

\* Lines 232-267: the stored messages are shown; when polling is complete the
\* manual-check button is rendered, and a press of it calls the Mailbox
\* Poller once.  The pass ends.
Display ==
    /\ pc = "display"
    /\ IF polling_complete /\ manual_pressed
       THEN \E resp \in MessageResponses(generated_email) :
               LET result == check_messages(resp)
               IN  /\ messages' = StoreManual(result)
                   /\ manual_calls' = manual_calls + 1
                   /\ manual_result' = result
                   /\ manual_stored' = (manual_stored \/ result # <<>>)
       ELSE UNCHANGED <<messages, manual_calls, manual_result, manual_stored>>
    /\ manual_shown' = polling_complete
    /\ manual_pressed' = FALSE
    /\ loop_failures' = 0
    /\ pc' = "idle"
    /\ UNCHANGED <<generated_email, polling_complete, polling_attempts, custom_name,
                   domains_cache, generate_shown, attempt, alloc_request,
                   halted, before_alloc, alloc_outcome, loop_log, loop_done, sleeps,
                   typed, generate_pressed, domain_fetches, call, returned>>

\* ttl=3600: the cache entry of get_domains has outlived its window.  The
\* cache is read only at the start of a pass, so expiry is taken between
\* passes.
CacheExpires ==
    /\ pc = "idle"
    /\ domains_cache.present
    /\ domains_cache' = NoEntry
    /\ UNCHANGED <<session, generate_shown, manual_shown, pc, attempt, manual_pressed,
                   alloc_request, history, helper>>

Next ==
    \/ GenerateTab
    \/ GenerateResponse
    \/ CheckTab
    \/ PollAttempt
    \/ PollExhausted
    \/ Display
    \/ CacheExpires

Spec == Init /\ [][Next]_vars

\* perform_polling runs synchronously inside the pass: an iteration that is
\* due is made, and the loop's end is reached.
FairSpec == Spec /\ WF_vars(PollAttempt) /\ WF_vars(PollExhausted)

\* ------------------------------------------------- the helpers on their own
\* Strings and lengths the helper functions are called with.
InputChars == NameChars \cup Whitespace \cup {"@"}
NameInputs == SeqsUpTo(InputChars, MaxTypedLen)
WordLengths == 0..MaxSampledLength

HelperInit ==
    /\ generated_email = None
    /\ polling_complete = FALSE
    /\ messages = <<>>
    /\ polling_attempts = 0
    /\ custom_name = <<>>
    /\ domains_cache = NoEntry
    /\ generate_shown = FALSE
    /\ manual_shown = FALSE
    /\ pc = "helper"
    /\ attempt = 0
    /\ manual_pressed = FALSE
    /\ alloc_request = NoRequest
    /\ halted = ""
    /\ before_alloc = NoSnapshot
    /\ alloc_outcome = "none"
    /\ loop_log = <<>>
    /\ loop_done = FALSE
    /\ sleeps = 0
    /\ manual_calls = 0
    /\ manual_result = <<>>
    /\ manual_stored = FALSE
    /\ typed = <<>>
    /\ generate_pressed = FALSE
    /\ domain_fetches = 0
    /\ loop_failures = 0
    /\ returned = NoResult
    /\ \/ \E name \in NameInputs : call = Call("validate_email_name", name)
       \/ \E length \in WordLengths : call = Call("random_word", length)

\* Lines 54-56 called with call.arg.
CallValidate ==
    /\ call.fn = "validate_email_name"
    /\ ~returned.done
    /\ returned' = Returned(validate_email_name(call.arg))
    /\ UNCHANGED <<session, domains_cache, generate_shown, manual_shown, pc, attempt,
                   manual_pressed, alloc_request, history, call>>

\* Lines 48-50 called with call.arg.
CallRandomWord ==
    /\ call.fn = "random_word"
    /\ ~returned.done
    /\ \E word \in random_word(call.arg) : returned' = Returned(word)
    /\ UNCHANGED <<session, domains_cache, generate_shown, manual_shown, pc, attempt,
                   manual_pressed, alloc_request, history, call>>

HelperNext ==
    \/ CallValidate
    \/ CallRandomWord

HelperSpec == HelperInit /\ [][HelperNext]_vars

TypeOK ==
    /\ generated_email \in Emails \cup {None}
    /\ polling_complete \in BOOLEAN
    /\ polling_attempts \in Nat
    /\ custom_name \in TypedNames
    /\ pc \in {"idle", "allocating", "tab2", "polling", "display", "helper"}


\* ------------------------------------------------------------------ claims
found == \E i \in 1..Len(loop_log) : loop_log[i] # <<>>

\* C1: in every reachable state polling_attempts is at most max_attempts.
C1_AttemptsBounded == polling_attempts <= max_attempts

C1_Witness ==
    /\ pc = "idle"
    /\ polling_attempts = max_attempts
    /\ Len(loop_log) = max_attempts

\* C2: polling_complete is true only if, since the last allocation, the
\* polling loop got a non-empty result or the attempt counter reached
\* max_attempts; and when either has happened polling_complete is true at the
\* end of the pass.
C2_CompleteExactly ==
    /\ polling_complete => (found \/ polling_attempts = max_attempts)
    /\ (pc = "idle" /\ (found \/ polling_attempts = max_attempts)) => polling_complete

C2_Witness ==
    /\ pc = "idle"
    /\ polling_complete
    /\ found
    /\ polling_attempts = 3

\* C3: every stored message was returned by a Mailbox Poller call for the
\* current address.
C3_MessagesOfCurrentAddress ==
    \A i \in 1..Len(messages) : messages[i].to = generated_email

C3_Witness ==
    /\ pc = "tab2"
    /\ alloc_outcome = "ok"
    /\ before_alloc.messages # <<>>
    /\ before_alloc.generated_email \notin {None, generated_email}

\* C4: from a successful allocation until the first Mailbox Poller call for
\* the new address, the message list is empty, polling_attempts is 0 and
\* polling_complete is false.
C4_ResetBeforePoll ==
    (alloc_outcome = "ok" /\ loop_log = <<>> /\ manual_calls = 0)
        => (messages = <<>> /\ polling_attempts = 0 /\ ~polling_complete)

C4_Witness ==
    /\ pc = "tab2"
    /\ alloc_outcome = "ok"
    /\ before_alloc.messages # <<>>
    /\ before_alloc.polling_complete
    /\ before_alloc.polling_attempts > 0

\* C5: when the allocate request fails, the address, the message list,
\* polling_attempts and polling_complete are what they were when the request
\* was sent.
C5_FailedAllocationKeepsState ==
    (pc = "tab2" /\ alloc_outcome = "failed") => Snapshot = before_alloc

C5_Witness ==
    /\ pc = "tab2"
    /\ alloc_outcome = "failed"
    /\ messages # <<>>
    /\ polling_complete
    /\ polling_attempts > 0

\* C6: if the loop's first k-1 results are empty and the k-th is not, the
\* loop made exactly k calls, polling_attempts = k, polling_complete is true,
\* the loop is over and the k-th result is the message list (until a manual
\* check stores another).
C6_StopsAtFirstResult ==
    \A k \in 1..max_attempts :
        (/\ Len(loop_log) >= k
         /\ loop_log[k] # <<>>
         /\ \A i \in 1..(k - 1) : loop_log[i] = <<>>)
        => /\ Len(loop_log) = k
           /\ polling_attempts = k
           /\ polling_complete
           /\ pc # "polling"
           /\ (~manual_stored => messages = loop_log[k])

C6_Witness ==
    /\ pc = "display"
    /\ Len(loop_log) = 2
    /\ loop_log[1] = <<>>
    /\ loop_log[2] # <<>>
    /\ messages = loop_log[2]
    /\ alloc_outcome = "ok"

\* C7: after max_attempts empty results in a row for a freshly allocated
\* address the loop is over with polling_complete true, polling_attempts =
\* max_attempts and the message list empty (until a manual check stores one).
C7_Exhausted ==
    (/\ Len(loop_log) = max_attempts
     /\ ~found
     /\ pc # "polling")
    => /\ polling_complete
       /\ polling_attempts = max_attempts
       /\ (~manual_stored => messages = <<>>)

C7_Witness ==
    /\ pc = "display"
    /\ alloc_outcome = "ok"
    /\ Len(loop_log) = max_attempts
    /\ ~found
    /\ messages = <<>>
    /\ polling_complete

\* C8: once the loop has reached Found or Exhausted for an address, no step
\* that keeps that allocation enters the loop or adds a call of the loop, and
\* a pass makes at most one manual call.
C8_NoAutomaticRestart ==
    [][(loop_done /\ loop_done')
          => (pc' # "polling" /\ loop_log' = loop_log /\ manual_calls' <= 1)]_vars

C8_Witness ==
    /\ pc = "display"
    /\ loop_done
    /\ alloc_outcome = "failed"
    /\ polling_attempts < max_attempts

\* C9: a manual check with polling_complete true makes one Mailbox Poller
\* call, leaves polling_attempts and polling_complete alone, and the message
\* list becomes the result if that is non-empty and is unchanged otherwise.
C9_ManualCheck ==
    [][(pc = "display" /\ polling_complete /\ manual_pressed)
          => /\ manual_calls' = manual_calls + 1
             /\ manual_calls' = 1
             /\ UNCHANGED <<polling_attempts, polling_complete>>
             /\ (manual_result' # <<>> => messages' = manual_result')
             /\ (manual_result' = <<>> => messages' = messages)]_vars

C9_Witness ==
    /\ pc = "idle"
    /\ manual_calls = 1
    /\ manual_result # <<>>
    /\ messages = manual_result
    /\ found
    /\ loop_log[Len(loop_log)] # manual_result
    /\ ~generate_pressed

\* A pass that starts with Generate pressed and a non-empty custom name that
\* fails validation.
InvalidPress ==
    /\ pc = "idle"
    /\ generate_pressed'
    /\ typed' # <<>>
    /\ ~validate_email_name(typed')

NoCallInPass ==
    /\ pc' = "idle"
    /\ alloc_request' = NoRequest
    /\ loop_log' = loop_log
    /\ manual_calls' \in {0, manual_calls}

\* C10 as stated: such a pass makes no allocate request and no Mailbox Poller
\* call and leaves the address, the message list, polling_attempts,
\* polling_complete and the pending custom name as they were.
C10_Original ==
    [][InvalidPress
          => /\ NoCallInPass
             /\ UNCHANGED <<generated_email, messages, polling_attempts,
                            polling_complete, custom_name>>]_vars

\* C10 amended: such a pass makes no allocate request and no Mailbox Poller
\* call and leaves the address, the message list, polling_attempts and
\* polling_complete as they were; the pending custom name is the typed text
\* with surrounding whitespace removed (or unchanged when no domains were
\* available).
C10_InvalidNameHalts ==
    [][InvalidPress
          => /\ NoCallInPass
             /\ UNCHANGED <<generated_email, messages, polling_attempts, polling_complete>>
             /\ custom_name' \in {strip(typed'), custom_name}
             /\ (halted' = "invalid_name" => custom_name' = strip(typed'))]_vars

C10_Witness ==
    /\ pc = "idle"
    /\ halted = "invalid_name"
    /\ generate_pressed
    /\ typed # custom_name
    /\ custom_name # <<>>
    /\ messages # <<>>


\* C11: a call of get_domains while the cache holds an entry returns what the
\* entry's first call returned and sends no request; a call after the entry
\* expired sends one.
C11_CachedWithinWindow ==
    /\ [][(pc = "idle" /\ domains_cache.present /\ domains_cache'.present)
             => (domains_cache'.value = domains_cache.value /\ domain_fetches' = 0)]_vars
    /\ [][(pc = "idle" /\ ~domains_cache.present /\ domains_cache'.present)
             => domain_fetches' = 1]_vars

C11_Witness ==
    /\ pc = "tab2"
    /\ domain_fetches = 0
    /\ domains_cache.present
    /\ domains_cache.value = <<"d1", "d2">>
    /\ generated_email # None

\* What C12 asks of a name: not empty, and nothing but letters, digits,
\* underscores and hyphens from the first character to the last.
FullMatch(name) ==
    /\ Len(name) >= 1
    /\ \A i \in 1..Len(name) : name[i] \in NameChars

\* C12: validate_email_name(name) is true exactly when name is non-empty and
\* every character of it is a letter, digit, underscore or hyphen.
C12_FullStringAnchoring ==
    (call.fn = "validate_email_name" /\ returned.done)
        => (returned.value <=> FullMatch(call.arg))

\* The 26 lowercase ASCII letters.
LowercaseLetters ==
    {"a", "b", "c", "d", "e", "f", "g", "h", "i", "j", "k", "l", "m",
     "n", "o", "p", "q", "r", "s", "t", "u", "v", "w", "x", "y", "z"}

\* C13: random_word(n) returns n characters, each a lowercase ASCII letter.
C13_RandomWordShape ==
    (call.fn = "random_word" /\ returned.done)
        => /\ Len(returned.value) = call.arg
           /\ \A i \in 1..Len(returned.value) : returned.value[i] \in LowercaseLetters

C13_Witness ==
    /\ call.fn = "random_word"
    /\ returned.done
    /\ call.arg = 4
    /\ returned.value = <<"a", "b", "b", "a">>

empties == Cardinality({i \in 1..Len(loop_log) : loop_log[i] = <<>>})

\* C14 as stated: an exhausted poll has slept max_attempts - 1 times, there
\* being no sleep after the last empty attempt.
C14_Original ==
    (Len(loop_log) = max_attempts /\ ~found /\ pc # "polling")
        => sleeps = max_attempts - 1

\* C14 amended: the loop sleeps after every empty attempt, the last one
\* included, so an exhausted poll has slept max_attempts times.
C14_SleepAfterEveryEmptyAttempt ==
    /\ sleeps = empties
    /\ (Len(loop_log) = max_attempts /\ ~found /\ pc # "polling") => sleeps = max_attempts

C14_Witness ==
    /\ pc = "display"
    /\ Len(loop_log) = max_attempts
    /\ ~found
    /\ sleeps = max_attempts
    /\ polling_complete

\* C15: after a pass whose get_domains call failed, the next call sends a
\* request, the failure having left no cache entry.
C15_FailureNotCached ==
    [][(pc = "idle" /\ halted = "no_domains" /\ domains_cache'.present)
          => domain_fetches' = 1]_vars

\* C16: a RequestException in the polling loop counts one attempt, leaves the
\* message list and the flag alone and keeps the loop going; max_attempts of
\* them in a row end the loop with polling_complete, polling_attempts =
\* max_attempts and no messages, as max_attempts empty results do.
C16_FailureIsEmpty ==
    /\ [][(pc = "polling" /\ loop_failures' = loop_failures + 1)
             => /\ polling_attempts' = polling_attempts + 1
                /\ loop_log' = Append(loop_log, <<>>)
                /\ sleeps' = sleeps + 1
                /\ UNCHANGED <<messages, polling_complete, pc>>]_vars
    /\ []((loop_failures = max_attempts /\ pc = "display")
             => /\ polling_complete
                /\ polling_attempts = max_attempts
                /\ messages = <<>>
                /\ Len(loop_log) = max_attempts
                /\ ~found)

C16_Witness ==
    /\ pc = "display"
    /\ loop_failures = max_attempts
    /\ polling_complete
    /\ messages = <<>>

\* C17: a polling loop that was entered ends with polling_complete true,
\* and no run of it makes more than max_attempts iterations.
C17_PollingTerminates ==
    /\ (pc = "polling") ~> (pc = "display" /\ polling_complete)
    /\ [](pc = "polling" => (attempt <= max_attempts /\ Len(loop_log) = attempt))

C17_Witness ==
    /\ pc = "display"
    /\ polling_complete
    /\ Len(loop_log) = max_attempts
    /\ loop_failures = 2
    /\ found

\* C18: at the end of a pass polling_attempts is the number of Mailbox Poller
\* calls the polling loop made for the current address; manual checks are
\* not counted.
C18_AttemptsCountLoopCalls ==
    pc = "idle" => polling_attempts = Len(loop_log)

C18_Witness ==
    /\ pc = "idle"
    /\ manual_calls = 1
    /\ manual_result # <<>>
    /\ polling_attempts = 2
    /\ Len(loop_log) = 2
    /\ before_alloc = NoSnapshot
    /\ alloc_outcome = "none"

\* C19: while no address is allocated no Mailbox Poller call is made: the
\* pass never reaches the loop or the manual check, and polling_attempts is
\* 0, polling_complete false and the message list empty.
C19_NoPollWithoutAddress ==
    generated_email = None
        => /\ pc \notin {"polling", "display"}
           /\ loop_log = <<>>
           /\ manual_calls = 0
           /\ ~manual_shown
           /\ polling_attempts = 0
           /\ ~polling_complete
           /\ messages = <<>>

C19_Witness ==
    /\ pc = "idle"
    /\ generated_email = None
    /\ alloc_outcome = "failed"
    /\ halted = "no_email"

\* C20: the name of every allocate request is valid: the typed name, which
\* passed validate_email_name, or a word of lowercase letters of a length the
\* number input allows.
C20_RequestNamesValid ==
    alloc_request.sent
        => LET name == alloc_request.name
           IN  /\ validate_email_name(name)
               /\ name # <<>>
               /\ \/ (typed # <<>> /\ name = typed)
                  \/ /\ typed = <<>>
                     /\ Len(name) \in min_value..max_value
                     /\ \A i \in 1..Len(name) : name[i] \in LowercaseLetters

C20_Witness ==
    /\ alloc_request.sent
    /\ typed = <<>>
    /\ Len(alloc_request.name) = 4
    /\ generated_email # None
    /\ alloc_request.domain = "d2"

====
